---- MODULE Spec2Model ----
(***************************************************************************)
(* Grid pathfinding (A* + string pulling) of the sc2-pathfinding demo.     *)
(*                                                                         *)
(* Numbers.  World coordinates are kept in half world units (an integer w  *)
(* stands for the world coordinate w/2), which represents exactly every    *)
(* cell center and cell edge of a grid of scale 1 with an even or an odd   *)
(* dimension.  Path costs g, h and f are kept in units of 1/FixedPoint:    *)
(* an orthogonal step costs 1.0, a diagonal step costs 1.414 and h is      *)
(* Math.sqrt rounded down to that unit.  The rounding of IEEE doubles      *)
(* between values that are equal as real numbers is not modelled.          *)
(***************************************************************************)
EXTENDS Integers, Sequences, FiniteSets, TLC

VARIABLES
    width,        \* Pathfinder.width
    height,       \* Pathfinder.height
    grid,         \* Pathfinder.grid: Uint8Array, index 0 .. width*height-1
    pc,           \* position of the findPath call: "idle", "search", "returned"
    startNode,    \* findPath: cell of the start point
    endNode,      \* findPath: cell of the end point
    openList,     \* findPath: sequence of open nodes
    closedList,   \* findPath: set of closed cells
    nodeParent,   \* findPath: parent link of every closed node
    rawPath,      \* findPath: the reconstructed path handed to smoothPath
    result,       \* findPath: the returned sequence of waypoints
    iterations,   \* findPath: iterations of the search loop run so far
    units,        \* main.js units: sequence of Unit objects
    updating,     \* animate: index of the unit whose update is next, 0 between frames
    dt,           \* animate: clock.getDelta() of the running frame, in milliseconds
    fault,        \* an uncaught TypeError has been thrown
    ticks,        \* frames started so far
    dispatch,     \* moveSelectedUnits: its locals while it runs, NoDispatch otherwise
    commands,     \* setPath calls and move commands issued so far
    earlier       \* an earlier findPath call with what it returned, NoEarlier if none

pathVars == << width, height, grid, pc, startNode, endNode, openList, closedList,
               nodeParent, rawPath, result, iterations >>

unitVars == << units, updating, dt, fault, ticks, dispatch, commands >>

\* what the operations of the pathfinder leave alone, and those of the units
restVars == << unitVars, earlier >>

searchVars == << pathVars, earlier >>

vars == << width, height, grid, pc, startNode, endNode, openList, closedList,
           nodeParent, rawPath, result, iterations,
           units, updating, dt, fault, ticks, dispatch, commands, earlier >>

----------------------------------------------------------------------------
(* Bounds of the model *)

MaxWidth == 3

MaxHeight == 2

MaxObstacles == 2

(* Program constants *)

GRID_SCALE == 1

scale == GRID_SCALE

(* Resolution of the fixed-point costs: 1.0 is FixedPoint units. *)
FixedPoint == 5 * 1000

NoCell == << >>

----------------------------------------------------------------------------
(* Coordinate mapping *)

\* mutant of WorldToCell: Math.round in the place of Math.floor
WorldToCellRounded(w, dim) == (w + dim * scale + scale) \div (2 * scale)

\* Math.floor(world / scale + dim / 2), world given in half units
WorldToCell(w, dim) == (w + dim * scale) \div (2 * scale)

\* (c - dim / 2) * scale + scale / 2, in half units
CellCenter(c, dim) == (2 * c - dim) * scale + scale

Vector3(px, pz) == [x |-> px, z |-> pz]

\* mutant of isValid: the upper bounds are not tested
isValidLowerOnly(x, y) == x >= 0 /\ y >= 0

isValid(x, y) == x >= 0 /\ x < width /\ y >= 0 /\ y < height

\* this.grid[y * width + x] === 1; an index outside the array reads undefined
\* mutant of isBlocked: the index is computed with x and y exchanged
isBlockedTransposed(x, y) ==
    LET i == x * width + y
    IN  i \in DOMAIN grid /\ grid[i] = 1

isBlocked(x, y) ==
    LET i == y * width + x
    IN  i \in DOMAIN grid /\ grid[i] = 1

\* mutant of isWalkableAt: the range test is left out, the cell is read at once
isWalkableAtNoRange(x, z) ==
    LET i == WorldToCell(z, height) * width + WorldToCell(x, width)
    IN  i \in DOMAIN grid /\ grid[i] = 0

isWalkableAt(x, z) ==
    LET gx == WorldToCell(x, width)
        gz == WorldToCell(z, height)
    IN  IF gx < 0 \/ gx >= width \/ gz < 0 \/ gz >= height THEN FALSE
        ELSE grid[gz * width + gx] = 0

----------------------------------------------------------------------------
(* Cost arithmetic of the search *)

RECURSIVE ISqrt(_, _)
\* the largest q >= from with q * q <= n
ISqrt(n, from) == IF (from + 1) * (from + 1) > n THEN from ELSE ISqrt(n, from + 1)

RECURSIVE SqrtFraction(_, _, _, _)
\* the largest t in lo .. hi with (q + t / FixedPoint)^2 <= q * q + rem
SqrtFraction(q, rem, lo, hi) ==
    IF lo >= hi THEN lo
    ELSE LET mid == (lo + hi + 1) \div 2
         IN  IF 2 * q * FixedPoint * mid + mid * mid <= rem * FixedPoint * FixedPoint
             THEN SqrtFraction(q, rem, mid, hi)
             ELSE SqrtFraction(q, rem, lo, mid - 1)

\* Math.sqrt(n) in fixed point, rounded down
Sqrt(n) ==
    LET q == ISqrt(n, 0)
    IN  q * FixedPoint + SqrtFraction(q, n - q * q, 0, FixedPoint - 1)

\* the squared distances the search can ask the root of, on grids of up to 10 by 10
SqrtTable == [n \in 0 .. 2 * 9 * 9 |-> Sqrt(n)]

\* Math.sqrt(Math.pow(x - endNode.x, 2) + Math.pow(y - endNode.y, 2))
Heuristic(x, y, end) ==
    SqrtTable[(x - end.x) * (x - end.x) + (y - end.y) * (y - end.y)]

\* (offset.x === 0 || offset.y === 0) ? 1 : 1.414
StepCost(offset) ==
    IF offset.x = 0 \/ offset.y = 0 THEN FixedPoint ELSE (1414 * FixedPoint) \div 1000

\* the 8 directions, in the order the search tries them
neighbors ==
    << [x |-> 0, y |-> -1], [x |-> 1, y |-> -1], [x |-> 1, y |-> 0], [x |-> 1, y |-> 1],
       [x |-> 0, y |-> 1], [x |-> -1, y |-> 1], [x |-> -1, y |-> 0], [x |-> -1, y |-> -1] >>

Abs(n) == IF n < 0 THEN -n ELSE n

Cell(x, y) == << x, y >>

----------------------------------------------------------------------------
(* The search loop of findPath *)

RECURSIVE ScanLowest(_, _, _)
\* for (i = 1 ..) if (openList[i].f < openList[lowestIndex].f) lowestIndex = i
ScanLowest(open, i, lowestIndex) ==
    IF i > Len(open) THEN lowestIndex
    ELSE ScanLowest(open, i + 1,
                    IF open[i].f < open[lowestIndex].f THEN i ELSE lowestIndex)

LowestIndex(open) == ScanLowest(open, 2, 1)

\* openList.splice(lowestIndex, 1)
Splice(open, i) == SubSeq(open, 1, i - 1) \o SubSeq(open, i + 1, Len(open))

\* a find that never finds the cell in the open list
FindIndexNone(open, nx, ny, i) == 0

RECURSIVE FindIndex(_, _, _, _)
\* openList.find(n => n.x === nx && n.y === ny): index of the first match, 0 if none
FindIndex(open, nx, ny, i) ==
    IF i > Len(open) THEN 0
    ELSE IF open[i].x = nx /\ open[i].y = ny THEN i
    ELSE FindIndex(open, nx, ny, i + 1)

\* mutant of IsClosed: closed cells are not skipped
IsClosedNever(closed, nx, ny) == FALSE

\* the closed-set test of the neighbour loop
IsClosed(closed, nx, ny) == Cell(nx, ny) \in closed

\* mutant of CutsCorner: only the flanking cell in x is tested
CutsCornerFirstSide(current, offset) ==
    /\ Abs(offset.x) = 1 /\ Abs(offset.y) = 1
    /\ isBlocked(current.x + offset.x, current.y)

\* the corner rule of the neighbour loop
CutsCorner(current, offset) ==
    /\ Abs(offset.x) = 1 /\ Abs(offset.y) = 1
    /\ \/ isBlocked(current.x + offset.x, current.y)
       \/ isBlocked(current.x, current.y + offset.y)

\* the relaxation test of the neighbour loop
Improves(gScore, neighbor) == gScore < neighbor.g

\* one pass of the body of "for (let offset of neighbors)"
Visit(open, closed, current, offset, end) ==
    LET nx == current.x + offset.x
        ny == current.y + offset.y
    IN  IF ~isValid(nx, ny) \/ isBlocked(nx, ny) \/ IsClosed(closed, nx, ny)
        THEN open
        ELSE IF CutsCorner(current, offset)
        THEN open
        ELSE LET gScore == current.g + StepCost(offset)
                 k == FindIndex(open, nx, ny, 1)
             IN  IF k = 0
                 THEN LET h == Heuristic(nx, ny, end)
                      IN  Append(open, [x |-> nx, y |-> ny,
                                        parent |-> Cell(current.x, current.y),
                                        g |-> gScore, h |-> h, f |-> gScore + h])
                 ELSE IF Improves(gScore, open[k])
                 THEN [open EXCEPT ![k] = [x |-> nx, y |-> ny,
                                           parent |-> Cell(current.x, current.y),
                                           g |-> gScore, h |-> open[k].h,
                                           f |-> gScore + open[k].h]]
                 ELSE open

RECURSIVE Expand(_, _, _, _, _)
\* the whole neighbour loop, offsets i .. 8
Expand(open, closed, current, i, end) ==
    IF i > Len(neighbors) THEN open
    ELSE Expand(Visit(open, closed, current, neighbors[i], end), closed, current, i + 1, end)

RECURSIVE Reverse(_)
Reverse(s) == IF s = << >> THEN << >> ELSE Append(Reverse(Tail(s)), Head(s))

RECURSIVE PushChain(_, _, _)
\* while (curr) { path.push(center of curr); curr = curr.parent }
PushChain(c, parent, parents) ==
    << Vector3(CellCenter(c[1], width), CellCenter(c[2], height)) >>
    \o (IF parent = NoCell THEN << >>
        ELSE PushChain(parent, parents[parent], parents))

\* mutant of Reconstruct: the path is left in goal -> start order
ReconstructUnreversed(current, parents) ==
    PushChain(Cell(current.x, current.y), current.parent, parents)

\* the reconstructed path, reversed into start -> goal order
Reconstruct(current, parents) ==
    Reverse(PushChain(Cell(current.x, current.y), current.parent, parents))

----------------------------------------------------------------------------
(* String pulling *)

RECURSIVE LineWalk(_, _, _, _, _, _, _, _, _, _)
\* the while (true) loop of hasLineOfSight; n counts the iterations begun before
\* this one
LineWalk(x0, y0, x1, y1, dx, dy, sx, sy, err, n) ==
    IF isBlocked(x0, y0) THEN [sight |-> FALSE, steps |-> n + 1]
    ELSE IF x0 = x1 /\ y0 = y1 THEN [sight |-> TRUE, steps |-> n + 1]
    ELSE LET e2 == 2 * err
             stepX == e2 > -dy
             stepY == e2 < dx
         IN  LineWalk(IF stepX THEN x0 + sx ELSE x0,
                      IF stepY THEN y0 + sy ELSE y0,
                      x1, y1, dx, dy, sx, sy,
                      err - (IF stepX THEN dy ELSE 0) + (IF stepY THEN dx ELSE 0),
                      n + 1)

\* hasLineOfSight up to its result: the sight line and the iterations it took
LineOfSight(start, end) ==
    LET x0 == WorldToCell(start.x, width)
        y0 == WorldToCell(start.z, height)
        x1 == WorldToCell(end.x, width)
        y1 == WorldToCell(end.z, height)
        dx == Abs(x1 - x0)
        dy == Abs(y1 - y0)
        sx == IF x0 < x1 THEN 1 ELSE -1
        sy == IF y0 < y1 THEN 1 ELSE -1
    IN  LineWalk(x0, y0, x1, y1, dx, dy, sx, sy, dx - dy, 0)

hasLineOfSight(start, end) == LineOfSight(start, end).sight

RECURSIVE ScanBack(_, _, _)
\* for (i = ..; i > currentIdx + 1; i--): the first visible i, else currentIdx + 1
\* (indices from 1)
ScanBack(path, currentIdx, i) ==
    IF i <= currentIdx + 1 THEN currentIdx + 1
    ELSE IF hasLineOfSight(path[currentIdx], path[i]) THEN i
    ELSE ScanBack(path, currentIdx, i - 1)

\* mutant of LookAhead: the scan starts one point short of the end of the path
LookAheadShort(path, currentIdx) == ScanBack(path, currentIdx, Len(path) - 1)

RECURSIVE ScanNearest(_, _, _)
ScanNearest(path, currentIdx, i) ==
    IF i > Len(path) THEN currentIdx + 1
    ELSE IF hasLineOfSight(path[currentIdx], path[i]) THEN i
    ELSE ScanNearest(path, currentIdx, i + 1)

\* mutant of LookAhead: the scan runs from the nearest point to the farthest
LookAheadNearest(path, currentIdx) == ScanNearest(path, currentIdx, currentIdx + 2)

\* the look-ahead of smoothPath: the scan starts at the last point of the path
LookAhead(path, currentIdx) == ScanBack(path, currentIdx, Len(path))

RECURSIVE PullString(_, _, _)
\* while (currentIdx < path.length - 1) of smoothPath (indices from 1)
PullString(path, currentIdx, smooth) ==
    IF currentIdx >= Len(path) THEN smooth
    ELSE LET nextIdx == LookAhead(path, currentIdx)
         IN  PullString(path, nextIdx, Append(smooth, path[nextIdx]))

\* mutant of smoothPath: the first point is not put on the smoothed path
smoothPathNoAnchor(path) ==
    IF Len(path) <= 2 THEN path
    ELSE PullString(path, 1, << >>)

smoothPath(path) ==
    IF Len(path) <= 2 THEN path
    ELSE PullString(path, 1, << path[1] >>)

----------------------------------------------------------------------------
(* State *)

NoNode == [x |-> -1, y |-> -1]

\* the locals of a findPath call that is not running
NoCall ==
    /\ startNode' = NoNode
    /\ endNode' = NoNode
    /\ openList' = << >>
    /\ closedList' = {}
    /\ nodeParent' = << >>
    /\ rawPath' = << >>
    /\ result' = << >>
    /\ iterations' = 0

\* new Pathfinder(width, height, scale)
NewPathfinder(w, h) ==
    /\ width = w
    /\ height = h
    /\ grid = [i \in 0 .. w * h - 1 |-> 0]

NoEarlier == [grid |-> << >>, startNode |-> NoNode, endNode |-> NoNode,
              rawPath |-> << >>, result |-> << >>]

\* no findPath call has been made yet
NotCalled ==
    /\ earlier = NoEarlier
    /\ pc = "idle"
    /\ startNode = NoNode
    /\ endNode = NoNode
    /\ openList = << >>
    /\ closedList = {}
    /\ nodeParent = << >>
    /\ rawPath = << >>
    /\ result = << >>
    /\ iterations = 0

NoDispatch == [target |-> << >>, selected |-> << >>, i |-> 0]

\* main.js before any unit is spawned, any frame is run and any command is given
NoUnits ==
    /\ units = << >>
    /\ updating = 0
    /\ dt = 0
    /\ fault = FALSE
    /\ ticks = 0
    /\ dispatch = NoDispatch
    /\ commands = 0

Init == NewPathfinder(MaxWidth, MaxHeight) /\ NotCalled /\ NoUnits

BlockedCount(g) == Cardinality({i \in DOMAIN g : g[i] = 1})

\* world coordinates tried as inputs: the center of every cell of one dimension and
\* of one cell beyond the grid on either side, and the two borders of the grid
WorldSamples(dim) ==
    {CellCenter(c, dim) : c \in -1 .. dim} \cup {-dim * scale, dim * scale}

----------------------------------------------------------------------------
(* Operations *)

\* mutant of Edited: the range test is left out
EditedUnchecked(x, z, isObstacle) ==
    LET i == WorldToCell(z, height) * width + WorldToCell(x, width)
    IN  IF i \in DOMAIN grid
        THEN [grid EXCEPT ![i] = IF isObstacle THEN 1 ELSE 0]
        ELSE grid

\* the grid after the body of setObstacle
Edited(x, z, isObstacle) ==
    LET gx == WorldToCell(x, width)
        gz == WorldToCell(z, height)
    IN  IF gx >= 0 /\ gx < width /\ gz >= 0 /\ gz < height
        THEN [grid EXCEPT ![gz * width + gx] = IF isObstacle THEN 1 ELSE 0]
        ELSE grid

setObstacle(x, z, isObstacle) ==
    /\ pc = "idle"
    /\ grid' = Edited(x, z, isObstacle)
    /\ BlockedCount(grid') <= MaxObstacles
    /\ UNCHANGED << width, height, pc, startNode, endNode, openList, closedList,
                    nodeParent, rawPath, result, iterations >>

\* return of findPath with the value r
Return(r) ==
    /\ pc' = "returned"
    /\ result' = r

\* findPath up to the search loop
findPath(startX, startZ, endX, endZ) ==
    /\ pc = "idle"
    /\ LET start == [x |-> WorldToCell(startX, width), y |-> WorldToCell(startZ, height)]
           end == [x |-> WorldToCell(endX, width), y |-> WorldToCell(endZ, height)]
       IN  /\ startNode' = start
           /\ endNode' = end
           /\ IF ~isValid(start.x, start.y) \/ ~isValid(end.x, end.y)
              THEN Return(<< >>) /\ openList' = << >>
              ELSE IF isBlocked(end.x, end.y)
              THEN Return(<< >>) /\ openList' = << >>
              ELSE /\ pc' = "search"
                   /\ result' = << >>
                   /\ openList' = << [x |-> start.x, y |-> start.y, parent |-> NoCell,
                                      g |-> 0, h |-> 0, f |-> 0] >>
    /\ closedList' = {}
    /\ nodeParent' = << >>
    /\ rawPath' = << >>
    /\ iterations' = 0
    /\ UNCHANGED << width, height, grid >>

\* mutant of searchStep: a cell that is closed is marked in the grid
searchStepMarksGrid ==
    /\ pc = "search"
    /\ IF Len(openList) = 0
       THEN /\ Return(<< >>)
            /\ UNCHANGED << openList, closedList, nodeParent, rawPath, iterations >>
       ELSE LET lowestIndex == LowestIndex(openList)
                current == openList[lowestIndex]
            IN  IF current.x = endNode.x /\ current.y = endNode.y
                THEN /\ rawPath' = Reconstruct(current, nodeParent)
                     /\ Return(smoothPath(rawPath'))
                     /\ iterations' = iterations + 1
                     /\ UNCHANGED << openList, closedList, nodeParent >>
                ELSE /\ closedList' = closedList \cup {Cell(current.x, current.y)}
                     /\ nodeParent' = (Cell(current.x, current.y) :> current.parent) @@ nodeParent
                     /\ openList' = Expand(Splice(openList, lowestIndex), closedList',
                                           current, 1, endNode)
                     /\ iterations' = iterations + 1
                     /\ UNCHANGED << pc, rawPath, result >>
    /\ grid' = IF Len(openList) = 0 THEN grid
               ELSE LET current == openList[LowestIndex(openList)]
                    IN  [grid EXCEPT ![current.y * width + current.x] = 1]
    /\ UNCHANGED << width, height, startNode, endNode >>

\* one iteration of while (openList.length > 0), or the exit of the loop
searchStep ==
    /\ pc = "search"
    /\ IF Len(openList) = 0
       THEN /\ Return(<< >>)
            /\ UNCHANGED << openList, closedList, nodeParent, rawPath, iterations >>
       ELSE LET lowestIndex == LowestIndex(openList)
                current == openList[lowestIndex]
            IN  IF current.x = endNode.x /\ current.y = endNode.y
                THEN /\ rawPath' = Reconstruct(current, nodeParent)
                     /\ Return(smoothPath(rawPath'))
                     /\ iterations' = iterations + 1
                     /\ UNCHANGED << openList, closedList, nodeParent >>
                ELSE /\ closedList' = closedList \cup {Cell(current.x, current.y)}
                     /\ nodeParent' = (Cell(current.x, current.y) :> current.parent) @@ nodeParent
                     /\ openList' = Expand(Splice(openList, lowestIndex), closedList',
                                           current, 1, endNode)
                     /\ iterations' = iterations + 1
                     /\ UNCHANGED << pc, rawPath, result >>
    /\ UNCHANGED << width, height, grid, startNode, endNode >>

\* the caller takes the returned path; the locals of the call are gone
Returned ==
    /\ pc = "returned"
    /\ pc' = "idle"
    /\ NoCall
    /\ UNCHANGED << width, height, grid >>

\* a call enters only while no search is running (the simulation is single-threaded)
Next ==
    \/ /\ pc = "idle"
       /\ \E x \in WorldSamples(width), z \in WorldSamples(height), b \in BOOLEAN :
              setObstacle(x, z, b)
       /\ UNCHANGED restVars
    \/ /\ pc = "idle"
       /\ \E startX, endX \in WorldSamples(width), startZ, endZ \in WorldSamples(height) :
              findPath(startX, startZ, endX, endZ)
       /\ UNCHANGED restVars
    \/ searchStep /\ UNCHANGED restVars
    \/ Returned /\ UNCHANGED restVars

Spec == Init /\ [][Next]_vars

----------------------------------------------------------------------------
(* Scenario A: a 10 by 10 grid without obstacles, searched from cell (0,0) *)

InitScenarioA == NewPathfinder(10, 10) /\ NotCalled /\ NoUnits

NextScenarioA ==
    \/ /\ pc = "idle"
       /\ \E cx \in 0 .. width - 1, cy \in 0 .. height - 1 :
              findPath(CellCenter(0, width), CellCenter(0, height),
                       CellCenter(cx, width), CellCenter(cy, height))
       /\ UNCHANGED restVars
    \/ searchStep /\ UNCHANGED restVars
    \/ Returned /\ UNCHANGED restVars

SpecScenarioA == InitScenarioA /\ [][NextScenarioA]_vars

----------------------------------------------------------------------------
(* Coordinate mapping on grids of every dimension up to MaxDim: searches *)
(* between cell centers of an obstacle-free grid                          *)

MaxDim == 4

InitMapping ==
    /\ \E w, h \in 1 .. MaxDim : NewPathfinder(w, h)
    /\ NotCalled
    /\ NoUnits

NextMapping ==
    \/ /\ pc = "idle"
       /\ \E sx, ex \in 0 .. width - 1, sy, ey \in 0 .. height - 1 :
              findPath(CellCenter(sx, width), CellCenter(sy, height),
                       CellCenter(ex, width), CellCenter(ey, height))
       /\ UNCHANGED restVars
    \/ searchStep /\ UNCHANGED restVars
    \/ Returned /\ UNCHANGED restVars

SpecMapping == InitMapping /\ [][NextMapping]_vars

----------------------------------------------------------------------------
(* Repeated searches from cell (0,0), between edits of the column x = 1: one *)
(* call is remembered with the grid it ran on and what it returned           *)

\* the return of a call that is remembered
Remember ==
    /\ pc = "returned"
    /\ earlier = NoEarlier
    /\ earlier' = [grid |-> grid, startNode |-> startNode, endNode |-> endNode,
                   rawPath |-> rawPath, result |-> result]
    /\ pc' = "idle"
    /\ NoCall
    /\ UNCHANGED << width, height, grid >>

InitPure == NewPathfinder(MaxWidth, MaxHeight) /\ NotCalled /\ NoUnits

NextPure ==
    \/ /\ pc = "idle"
       /\ \E cy \in 0 .. height - 1, b \in BOOLEAN :
              setObstacle(CellCenter(1, width), CellCenter(cy, height), b)
       /\ UNCHANGED restVars
    \/ /\ pc = "idle"
       /\ \E cx \in 0 .. width - 1, cy \in 0 .. height - 1 :
              findPath(CellCenter(0, width), CellCenter(0, height),
                       CellCenter(cx, width), CellCenter(cy, height))
       /\ UNCHANGED restVars
    \/ searchStep /\ UNCHANGED restVars
    \/ Remember /\ UNCHANGED unitVars
    \/ Returned /\ UNCHANGED restVars

SpecPure == InitPure /\ [][NextPure]_vars

----------------------------------------------------------------------------
(* Unit: steering agent.                                                     *)
(*                                                                           *)
(* Numbers.  Positions are kept in 1/Milli world units, velocities in        *)
(* 1/Milli world units per second, the time step in milliseconds; a unit     *)
(* vector has length Milli.  Quotients are rounded toward zero, where the    *)
(* program rounds to the nearest double.  A waypoint of a path keeps the     *)
(* half world units of the pathfinder.  NaN is kept as the flag nan of the   *)
(* unit: it stands for a position and a velocity whose components are NaN   *)
(* (the fields then hold the last numbers and are not read).                 *)

Milli == 1000

maxSpeed == 5

PathGain == 2

FrictionGain == 5

SeparationGain == 3

radius == Milli \div 2

ArrivalRadius == Milli \div 2

SeparationBuffer == Milli \div 5

\* velocity.lengthSq() > 0.1
HeadingThresholdSq == (Milli * Milli) \div 10

\* a / b rounded toward zero, b > 0
Quot(a, b) == IF a >= 0 THEN a \div b ELSE -((-a) \div b)

Vec(vx, vz) == [x |-> vx, z |-> vz]

ZeroVec == Vec(0, 0)

subVectors(a, b) == Vec(a.x - b.x, a.z - b.z)

addVectors(a, b) == Vec(a.x + b.x, a.z + b.z)

multiplyScalar(v, k) == Vec(v.x * k, v.z * k)

divideScalar(v, k) == Vec(Quot(v.x, k), Quot(v.z, k))

lengthSq(v) == v.x * v.x + v.z * v.z

RECURSIVE RootBetween(_, _, _)
\* the largest q in lo .. hi with q * q <= n
RootBetween(n, lo, hi) ==
    IF lo >= hi THEN lo
    ELSE LET mid == (lo + hi + 1) \div 2
         IN  IF mid * mid <= n THEN RootBetween(n, mid, hi)
             ELSE RootBetween(n, lo, mid - 1)

\* Math.sqrt of a squared length, rounded down
Root(n) == RootBetween(n, 0, 46340)

\* Vector3.length(), rounded up: a vector divided by its length is then at most
\* one unit long, as it is in the arithmetic of the code
length(v) ==
    LET n == lengthSq(v)
        r == Root(n)
    IN  IF r * r = n THEN r ELSE r + 1

\* a vector of the same direction whose squares fit the integers of the checker
Shrink(v) ==
    LET m == IF Abs(v.x) > Abs(v.z) THEN Abs(v.x) ELSE Abs(v.z)
    IN  IF m > 30000 THEN divideScalar(v, m \div 30000 + 1) ELSE v

\* divideScalar(length() || 1): the zero vector stays the zero vector
normalize(v) ==
    LET w == Shrink(v)
        l == length(w)
    IN  IF l = 0 THEN ZeroVec ELSE Vec(Quot(w.x * Milli, l), Quot(w.z * Milli, l))

\* a waypoint of a path as a position
WaypointPosition(p) == Vec(p.x * (Milli \div 2), p.z * (Milli \div 2))

\* a.distanceTo(b) < r, compared on the squares
Within(a, b, r) == lengthSq(subVectors(a, b)) < r * r

\* new Unit(scene, x, z)
NewUnit(px, pz) ==
    [position |-> Vec(px, pz), velocity |-> ZeroVec, nan |-> FALSE, rotation |-> ZeroVec,
     path |-> << >>, currentWaypointIndex |-> 0, isMoving |-> FALSE, selected |-> FALSE]

\* Unit.setSelected
SetSelected(u, isSelected) == [u EXCEPT !.selected = isSelected]

\* mutant of SetPath: the waypoint index is left as it was
SetPathNoReset(u, path) ==
    IF Len(path) > 0
    THEN [u EXCEPT !.path = path, !.isMoving = TRUE]
    ELSE [u EXCEPT !.isMoving = FALSE]

\* Unit.setPath
SetPath(u, path) ==
    IF Len(path) > 0
    THEN [u EXCEPT !.path = path, !.currentWaypointIndex = 1, !.isMoving = TRUE]
    ELSE [u EXCEPT !.isMoving = FALSE]

\* this.isMoving && this.path.length > 0
Following(u) == u.isMoving /\ Len(u.path) > 0

\* this.path[this.currentWaypointIndex] is an element of the path
HasTarget(u) == u.currentWaypointIndex + 1 \in DOMAIN u.path

\* this.path[this.currentWaypointIndex]
Target(u) == WaypointPosition(u.path[u.currentWaypointIndex + 1])

\* distanceTo(undefined) throws a TypeError
Throws(u) == Following(u) /\ ~HasTarget(u)

\* dist < 0.5; a comparison with NaN is false
Reached(u) == ~u.nan /\ Within(u.position, Target(u), ArrivalRadius)

\* mutant of ArrivalCheck: the waypoint index starts again at 0 on arrival
ArrivalCheckRewinds(u) ==
    IF Reached(u)
    THEN LET next == u.currentWaypointIndex + 1
         IN  IF next >= Len(u.path)
             THEN [u EXCEPT !.currentWaypointIndex = 0, !.isMoving = FALSE,
                            !.path = << >>]
             ELSE [u EXCEPT !.currentWaypointIndex = next]
    ELSE u

\* mutant of ArrivalCheck: on arrival the path is cleared, isMoving is left as it was
ArrivalCheckStaysMoving(u) ==
    IF Reached(u)
    THEN LET next == u.currentWaypointIndex + 1
         IN  IF next >= Len(u.path)
             THEN [u EXCEPT !.currentWaypointIndex = next, !.path = << >>]
             ELSE [u EXCEPT !.currentWaypointIndex = next]
    ELSE u

\* mutant of ArrivalCheck: the path counts as exhausted one waypoint too late
ArrivalCheckOffByOne(u) ==
    IF Reached(u)
    THEN LET next == u.currentWaypointIndex + 1
         IN  IF next > Len(u.path)
             THEN [u EXCEPT !.currentWaypointIndex = next, !.isMoving = FALSE,
                            !.path = << >>]
             ELSE [u EXCEPT !.currentWaypointIndex = next]
    ELSE u

\* the arrival check of a unit that follows a path
ArrivalCheck(u) ==
    IF Reached(u)
    THEN LET next == u.currentWaypointIndex + 1
         IN  IF next >= Len(u.path)
             THEN [u EXCEPT !.currentWaypointIndex = next, !.isMoving = FALSE,
                            !.path = << >>]
             ELSE [u EXCEPT !.currentWaypointIndex = next]
    ELSE u

\* the seek force of a unit toward a target
SeekForce(u, target) ==
    LET desired == multiplyScalar(normalize(subVectors(target, u.position)), maxSpeed)
        steer == subVectors(desired, u.velocity)
    IN  multiplyScalar(steer, PathGain)

\* this.velocity.clone().multiplyScalar(-5.0)
FrictionForce(u) == multiplyScalar(u.velocity, -FrictionGain)

\* 1. Path Following (Seek): what the first block adds to the acceleration
PathAcceleration(u) ==
    IF Following(u)
    THEN IF ArrivalCheck(u).isMoving THEN SeekForce(u, Target(u)) ELSE ZeroVec
    ELSE FrictionForce(u)

\* dist < this.radius + other.radius + 0.2
TooClose(u, other) ==
    /\ ~u.nan /\ ~other.nan
    /\ Within(u.position, other.position, radius + radius + SeparationBuffer)

\* the push of a neighbour at a distance above 0: normalize, then divide by dist
Push(u, other) ==
    LET away == subVectors(u.position, other.position)
    IN  divideScalar(multiplyScalar(normalize(away), Milli), length(away))

RECURSIVE SeparationFrom(_, _, _, _)
\* the loop over the neighbours from index j on; a neighbour at distance 0 gives
\* the push 0 / 0
SeparationFrom(us, i, j, acc) ==
    IF j > Len(us) THEN acc
    ELSE IF j = i \/ ~TooClose(us[i], us[j]) THEN SeparationFrom(us, i, j + 1, acc)
    ELSE IF us[i].position = us[j].position
    THEN SeparationFrom(us, i, j + 1, [acc EXCEPT !.nan = TRUE, !.count = @ + 1])
    ELSE SeparationFrom(us, i, j + 1,
             [acc EXCEPT !.sum = addVectors(@, Push(us[i], us[j])), !.count = @ + 1])

Separation(us, i) == SeparationFrom(us, i, 1, [sum |-> ZeroVec, count |-> 0, nan |-> FALSE])

\* 2. Separation: what the second block adds to the acceleration
SeparationForce(u, sep) ==
    IF sep.count > 0
    THEN LET separation ==
                 multiplyScalar(normalize(divideScalar(sep.sum, sep.count)), maxSpeed)
             steer == subVectors(separation, u.velocity)
         IN  multiplyScalar(steer, SeparationGain)
    ELSE ZeroVec

\* if (this.velocity.length() > this.maxSpeed) normalize, scale to maxSpeed
ClampSpeed(v) ==
    IF lengthSq(v) > (maxSpeed * Milli) * (maxSpeed * Milli)
    THEN multiplyScalar(normalize(v), maxSpeed)
    ELSE v

\* Integration: velocity, clamp, position, rotation
Integrate(u, acceleration, dtMs) ==
    LET v == ClampSpeed(addVectors(u.velocity,
                 divideScalar(multiplyScalar(acceleration, dtMs), Milli)))
        move == divideScalar(multiplyScalar(v, dtMs), Milli)
    IN  [u EXCEPT !.velocity = v,
                  !.position = addVectors(@, move),
                  !.rotation = IF lengthSq(v) > HeadingThresholdSq THEN v ELSE @]

\* Unit.update(dt, neighbors) of the unit us[i] that does not throw
Update(us, i, dtMs) ==
    LET u == us[i]
        checked == IF Following(u) THEN ArrivalCheck(u) ELSE u
        sep == Separation(us, i)
        acceleration == addVectors(PathAcceleration(u), SeparationForce(u, sep))
    IN  IF u.nan \/ sep.nan
        THEN [checked EXCEPT !.nan = TRUE]
        ELSE Integrate(checked, acceleration, dtMs)

----------------------------------------------------------------------------
(* Operations on the units *)

MaxTicks == 3

MaxCommands == 2

\* values of clock.getDelta() tried, in milliseconds
DtSamples == {16, 200}

\* the value tried between move commands
SlowFrame == {200}

\* animate up to the loop over the units
animate(d) ==
    /\ updating = 0
    /\ pc = "idle"
    /\ dispatch = NoDispatch
    /\ ticks < MaxTicks
    /\ ticks' = ticks + 1
    /\ dt' = d
    /\ updating' = IF Len(units) > 0 THEN 1 ELSE 0
    /\ UNCHANGED << units, fault, dispatch, commands >>

\* an update that also moves the neighbours it is too close to
updatePushesNeighbours ==
    /\ updating > 0
    /\ IF Throws(units[updating])
       THEN /\ fault' = TRUE
            /\ updating' = 0
            /\ UNCHANGED units
       ELSE /\ units' = [j \in DOMAIN units |->
                           IF j = updating THEN Update(units, updating, dt)
                           ELSE IF TooClose(units[updating], units[j])
                           THEN [units[j] EXCEPT !.position =
                                    addVectors(@, subVectors(@, units[updating].position))]
                           ELSE units[j]]
            /\ updating' = IF updating = Len(units) THEN 0 ELSE updating + 1
            /\ UNCHANGED fault
    /\ UNCHANGED << dt, ticks, dispatch, commands >>

\* one call of units.forEach(unit => unit.update(dt, units)); a throw ends the frame
update ==
    /\ updating > 0
    /\ IF Throws(units[updating])
       THEN /\ fault' = TRUE
            /\ updating' = 0
            /\ UNCHANGED units
       ELSE /\ units' = [units EXCEPT ![updating] = Update(units, updating, dt)]
            /\ updating' = IF updating = Len(units) THEN 0 ELSE updating + 1
            /\ UNCHANGED fault
    /\ UNCHANGED << dt, ticks, dispatch, commands >>

\* units[i].setPath(path), called between two frames
setPath(i, path) ==
    /\ updating = 0
    /\ dispatch = NoDispatch
    /\ commands < MaxCommands
    /\ units' = [units EXCEPT ![i] = SetPath(@, path)]
    /\ commands' = commands + 1
    /\ UNCHANGED << updating, dt, fault, ticks, dispatch >>

\* no frame is running and no command is being dispatched
NoFrame ==
    /\ updating = 0
    /\ dt = 0
    /\ fault = FALSE
    /\ ticks = 0
    /\ dispatch = NoDispatch
    /\ commands = 0

----------------------------------------------------------------------------
(* Two units under setPath calls and frames *)

\* where the second unit is spawned; the first is spawned at the origin
SpawnSamples == {<< 0, 0 >>, << 300, 0 >>, << 1100, 0 >>, << 600, 800 >>, << 3000, 0 >>}

\* the paths given to setPath, in the half world units of the pathfinder
PathSamples ==
    {<< >>,
     << Vector3(0, 0) >>,
     << Vector3(0, 0), Vector3(1, 1) >>,
     << Vector3(0, 0), Vector3(1, 0), Vector3(2, 0) >>}

InitUnit ==
    /\ NewPathfinder(MaxWidth, MaxHeight)
    /\ NotCalled
    /\ \E p \in SpawnSamples : units = << NewUnit(0, 0), NewUnit(p[1], p[2]) >>
    /\ NoFrame

NextUnit ==
    \/ /\ updating = 0
       /\ \E i \in DOMAIN units, path \in PathSamples : setPath(i, path)
       /\ UNCHANGED searchVars
    \/ /\ updating = 0
       /\ \E d \in DtSamples : animate(d)
       /\ UNCHANGED searchVars
    \/ update /\ UNCHANGED searchVars

SpecUnit == InitUnit /\ [][NextUnit]_vars

----------------------------------------------------------------------------
(* Group command dispatcher: moveSelectedUnits *)

\* const spacing = 1.5
spacing == 3 * (Milli \div 2)

\* Math.ceil(Math.sqrt(n)), n >= 1
Cols(n) == CHOOSE c \in 1 .. n : c * c >= n /\ (c - 1) * (c - 1) < n

\* (col - cols / 2) * spacing and (row - cols / 2) * spacing of the agent with index i
Offset(i, cols) ==
    LET col == i % cols
        row == i \div cols
    IN  Vec(Quot((2 * col - cols) * spacing, 2), Quot((2 * row - cols) * spacing, 2))

RECURSIVE FilterSelected(_, _)
\* units.filter(u => u.selected), as the indices of the units from j on
FilterSelected(us, j) ==
    IF j > Len(us) THEN << >>
    ELSE IF us[j].selected THEN << j >> \o FilterSelected(us, j + 1)
    ELSE FilterSelected(us, j + 1)

\* a coordinate in the half world units of the pathfinder, rounded down: it maps
\* to the cell the coordinate maps to
HalfUnits(p) == (2 * p) \div Milli

\* a NaN coordinate maps to no cell: stands for it a coordinate before the grid
StartCoordinate(u, p, dim) == IF u.nan THEN -(dim + 2) * scale ELSE HalfUnits(p)

\* a call of moveSelectedUnits is running
Dispatching == dispatch.selected # << >>

\* the unit the running call is at, and the target of this unit
DispatchedUnit == dispatch.selected[dispatch.i + 1]

unitTarget ==
    addVectors(dispatch.target, Offset(dispatch.i, Cols(Len(dispatch.selected))))

\* Unit.setSelected on units[i], between two frames
setSelected(i, isSelected) ==
    /\ updating = 0
    /\ pc = "idle"
    /\ ~Dispatching
    /\ units[i].selected # isSelected
    /\ units' = [units EXCEPT ![i] = SetSelected(@, isSelected)]
    /\ UNCHANGED << updating, dt, fault, ticks, dispatch, commands >>

\* moveSelectedUnits up to the loop over the selected units
moveSelectedUnits(target) ==
    /\ updating = 0
    /\ pc = "idle"
    /\ ~Dispatching
    /\ commands < MaxCommands
    /\ commands' = commands + 1
    /\ LET selected == FilterSelected(units, 1)
       IN  dispatch' = IF Len(selected) = 0 THEN NoDispatch
                       ELSE [target |-> target, selected |-> selected, i |-> 0]
    /\ UNCHANGED << units, updating, dt, fault, ticks >>

\* the call pathfinder.findPath(unit position, unitTarget) of the loop
requestPath ==
    /\ Dispatching
    /\ pc = "idle"
    /\ LET u == units[DispatchedUnit]
       IN  findPath(StartCoordinate(u, u.position.x, width),
                    StartCoordinate(u, u.position.z, height),
                    HalfUnits(unitTarget.x), HalfUnits(unitTarget.z))
    /\ UNCHANGED restVars

\* mutant of assignPath: setPath is called with every result
assignPathAlways ==
    /\ Dispatching
    /\ pc = "returned"
    /\ units' = [units EXCEPT ![DispatchedUnit] = SetPath(@, result)]
    /\ dispatch' = IF dispatch.i + 1 = Len(dispatch.selected) THEN NoDispatch
                    ELSE [dispatch EXCEPT !.i = @ + 1]
    /\ pc' = "idle"
    /\ NoCall
    /\ UNCHANGED << width, height, grid, updating, dt, fault, ticks, commands, earlier >>

\* if (path && path.length > 0) unit.setPath(path), and the next selected unit
assignPath ==
    /\ Dispatching
    /\ pc = "returned"
    /\ IF Len(result) > 0
       THEN units' = [units EXCEPT ![DispatchedUnit] = SetPath(@, result)]
       ELSE UNCHANGED units
    /\ dispatch' = IF dispatch.i + 1 = Len(dispatch.selected) THEN NoDispatch
                    ELSE [dispatch EXCEPT !.i = @ + 1]
    /\ pc' = "idle"
    /\ NoCall
    /\ UNCHANGED << width, height, grid, updating, dt, fault, ticks, commands, earlier >>

----------------------------------------------------------------------------
(* Two units on a grid with or without a wall, under selections, move *)
(* commands and frames                                                 *)

\* the grid with the whole column x blocked
WallAt(x) == [i \in 0 .. width * height - 1 |-> IF i % width = x THEN 1 ELSE 0]

\* the targets of the move commands
TargetSamples == {Vec(1000, 500), Vec(1750, 250), Vec(-250, 250), Vec(2500, 2000)}

InitDispatch ==
    /\ width = MaxWidth
    /\ height = MaxHeight
    /\ grid \in {[i \in 0 .. width * height - 1 |-> 0], WallAt(1)}
    /\ NotCalled
    /\ units = << NewUnit(CellCenter(0, width) * (Milli \div 2),
                           CellCenter(0, height) * (Milli \div 2)),
                   NewUnit(CellCenter(0, width) * (Milli \div 2),
                           CellCenter(height - 1, height) * (Milli \div 2)) >>
    /\ NoFrame

NextDispatch ==
    \/ /\ updating = 0 /\ pc = "idle" /\ ~Dispatching
       /\ \E i \in DOMAIN units, b \in BOOLEAN : setSelected(i, b)
       /\ UNCHANGED searchVars
    \/ /\ updating = 0 /\ pc = "idle" /\ ~Dispatching
       /\ \E target \in TargetSamples : moveSelectedUnits(target)
       /\ UNCHANGED searchVars
    \/ requestPath
    \/ searchStep /\ UNCHANGED restVars
    \/ assignPath
    \/ /\ updating = 0
       /\ \E d \in SlowFrame : animate(d)
       /\ UNCHANGED searchVars
    \/ update /\ UNCHANGED searchVars

SpecDispatch == InitDispatch /\ [][NextDispatch]_vars

----------------------------------------------------------------------------
(* Vocabulary of the properties, defined on the grid alone *)

Cells == {c \in (0 .. width - 1) \X (0 .. height - 1) : TRUE}

InGrid(c) == c[1] \in 0 .. width - 1 /\ c[2] \in 0 .. height - 1

Walkable(c) == InGrid(c) /\ grid[c[2] * width + c[1]] = 0

Adjacent8(a, b) ==
    /\ a # b
    /\ Abs(a[1] - b[1]) <= 1
    /\ Abs(a[2] - b[2]) <= 1

\* a diagonal step from a to b has no blocked cell beside it
NoCornerCut(a, b) ==
    (a[1] # b[1] /\ a[2] # b[2]) =>
        /\ InGrid(<< b[1], a[2] >>) => Walkable(<< b[1], a[2] >>)
        /\ InGrid(<< a[1], b[2] >>) => Walkable(<< a[1], b[2] >>)

\* an allowed move: an 8-connected step into a walkable in-range cell
AllowedMove(a, b) == Adjacent8(a, b) /\ Walkable(b) /\ NoCornerCut(a, b)

RECURSIVE ReachableFrom(_)
\* the cells some sequence of allowed moves leads to from a cell of S
ReachableFrom(S) ==
    LET T == S \cup {b \in Cells : \E a \in S : AllowedMove(a, b)}
    IN  IF T = S THEN S ELSE ReachableFrom(T)

NodeCell(n) == << n.x, n.y >>

PointCell(p) == << WorldToCell(p.x, width), WorldToCell(p.z, height) >>

CenterOf(c) == Vector3(CellCenter(c[1], width), CellCenter(c[2], height))

\* findPath has returned from a call
Returns == pc = "returned"

\* the preconditions of the search hold for the call
ValidCall == InGrid(NodeCell(startNode)) /\ InGrid(NodeCell(endNode))

RECURSIVE IsSubsequence(_, _)
\* s can be had from t by deleting elements of t
IsSubsequence(s, t) ==
    IF s = << >> THEN TRUE
    ELSE IF t = << >> THEN FALSE
    ELSE IF Head(s) = Head(t) THEN IsSubsequence(Tail(s), Tail(t))
    ELSE IsSubsequence(s, Tail(t))

\* every two consecutive points of a path see each other
AllVisible(path) ==
    \A i \in 1 .. Len(path) - 1 : hasLineOfSight(path[i], path[i + 1])

----------------------------------------------------------------------------
(* Properties *)

\* C1: findPath returns a non-empty path exactly when both endpoints map to
\* in-range cells, the goal cell is walkable and the goal cell can be reached from
\* the start cell by allowed moves; in every other case it returns an empty sequence.
C1_PathIffReachable ==
    Returns =>
        (result # << >>
            <=> /\ ValidCall
                /\ Walkable(NodeCell(endNode))
                /\ NodeCell(endNode) \in ReachableFrom({NodeCell(startNode)}))

\* a search that went around obstacles and found the goal, and one that found none
C1_Witness ==
    /\ Returns /\ ValidCall
    /\ result # << >>
    /\ Len(rawPath) > 3
    /\ BlockedCount(grid) > 0

\* C2: findPath returns an empty sequence and changes no grid cell whenever the
\* start or the end point maps to a cell outside the grid or the goal cell is blocked.
C2_RejectsBadEndpoints ==
    [][(pc = "idle" /\ pc' # "idle") =>
          /\ grid' = grid
          /\ (~InGrid(NodeCell(startNode')) \/ ~InGrid(NodeCell(endNode'))
                \/ ~Walkable(NodeCell(endNode')))
              => (pc' = "returned" /\ result' = << >>)]_vars

\* a call whose goal cell is blocked, and whose start cell is in range, has returned
C2_Witness ==
    /\ Returns /\ ValidCall
    /\ ~Walkable(NodeCell(endNode))
    /\ result = << >>

\* C3: on a grid without obstacles, for every start and end in range, the returned
\* sequence starts at the center of the start cell and ends at the center of the
\* end cell.
C3_EndpointsAreCellCenters ==
    (Returns /\ ValidCall /\ BlockedCount(grid) = 0) =>
        /\ result # << >>
        /\ result[1] = CenterOf(NodeCell(startNode))
        /\ result[Len(result)] = CenterOf(NodeCell(endNode))

\* a search between two different cells of an obstacle-free grid has returned
C3_Witness ==
    /\ Returns /\ ValidCall /\ BlockedCount(grid) = 0
    /\ startNode # endNode
    /\ Len(result) >= 2

\* C4: in the raw cell path (before smoothing) every two consecutive cells are
\* 8-adjacent and no diagonal step has a blocked cell beside it, on every grid.
C4_RawPathSteps ==
    Returns =>
        \A i \in 1 .. Len(rawPath) - 1 :
            LET a == PointCell(rawPath[i])
                b == PointCell(rawPath[i + 1])
            IN  Adjacent8(a, b) /\ NoCornerCut(a, b)

\* a raw path with a diagonal step on a grid with obstacles
C4_Witness ==
    /\ Returns
    /\ BlockedCount(grid) > 0
    /\ \E i \in 1 .. Len(rawPath) - 1 :
           LET a == PointCell(rawPath[i])
               b == PointCell(rawPath[i + 1])
           IN  a[1] # b[1] /\ a[2] # b[2]

\* C5: for every path smoothPath returns (and so for every path findPath returns),
\* each pair of consecutive points passes hasLineOfSight.
C5_SmoothedPathVisible == Returns => AllVisible(result)

\* C6: the path smoothPath returns is no longer than its input, is a subsequence
\* of the input in the same order, and has the same first and last point.
C6_SmoothIsSubsequence ==
    (Returns /\ rawPath # << >>) =>
        LET out == smoothPath(rawPath)
        IN  /\ Len(out) <= Len(rawPath)
            /\ IsSubsequence(out, rawPath)
            /\ out # << >>
            /\ out[1] = rawPath[1]
            /\ out[Len(out)] = rawPath[Len(rawPath)]

\* smoothing has removed points of a raw path, and kept an inner one
C6_Witness ==
    /\ Returns
    /\ Len(rawPath) > Len(result)
    /\ Len(result) > 2

\* C7: smoothPath is idempotent: smoothPath(smoothPath(p)) = smoothPath(p) for the
\* raw path p of any search on any grid.
C7_SmoothIdempotent ==
    (Returns /\ rawPath # << >>) =>
        smoothPath(smoothPath(rawPath)) = smoothPath(rawPath)

\* a raw path that smoothing shortens to a path it then walks again
C7_Witness ==
    /\ Returns
    /\ Len(smoothPath(rawPath)) > 2
    /\ Len(smoothPath(rawPath)) < Len(rawPath)

\* C8: on a 10 by 10 grid with no obstacles, the path from cell (0,0) to cell (9,9)
\* has exactly 2 points after smoothing: the centers of the start and the end cell.
C8_ScenarioA ==
    (Returns /\ width = 10 /\ height = 10 /\ BlockedCount(grid) = 0
        /\ NodeCell(startNode) = << 0, 0 >> /\ NodeCell(endNode) = << 9, 9 >>) =>
        result = << CenterOf(<< 0, 0 >>), CenterOf(<< 9, 9 >>) >>

\* the search of scenario A has returned, from a raw path along the whole diagonal
C8_Witness ==
    /\ Returns /\ width = 10 /\ height = 10 /\ BlockedCount(grid) = 0
    /\ NodeCell(startNode) = << 0, 0 >> /\ NodeCell(endNode) = << 9, 9 >>
    /\ Len(rawPath) = 10
    /\ Len(result) = 2

\* the cost the search charges for the allowed move from a to b
MoveCost(a, b) == StepCost([x |-> b[1] - a[1], y |-> b[2] - a[2]])

HeuristicAt(c, goal) == Heuristic(c[1], c[2], [x |-> goal[1], y |-> goal[2]])

Unreached == 1000 * FixedPoint

Min(S) == CHOOSE m \in S : \A n \in S : m <= n

RECURSIVE CheapestCost(_, _, _)
\* the cost of the cheapest path of allowed moves from every cell to the goal, of at
\* most k moves more than the paths d gives (Unreached where there is none)
CheapestCost(d, goal, k) ==
    IF k = 0 THEN d
    ELSE CHOOSE r \in
           {CheapestCost(e, goal, k - 1) :
              e \in {[a \in Cells |->
                        Min({d[a]} \cup {MoveCost(a, b) + d[b] :
                                           b \in {c \in Cells : AllowedMove(a, c)
                                                                  /\ d[c] < Unreached}})]}}
           : TRUE

CheapestToGoal(goal) ==
    CheapestCost([a \in Cells |-> IF a = goal THEN 0 ELSE Unreached], goal, width * height)

\* C9: with the step costs the search uses, the Euclidean heuristic is consistent
\* (h(a) <= stepCost(a, b) + h(b) for every allowed move from a to b) and admissible
\* (h(a) is at most the cost of the cheapest allowed path from a to the goal).
C9_HeuristicConsistentAdmissible ==
    pc = "search" =>
        LET goal == NodeCell(endNode)
        IN  /\ \A a, b \in Cells :
                  AllowedMove(a, b) =>
                      HeuristicAt(a, goal) <= MoveCost(a, b) + HeuristicAt(b, goal)
            /\ LET cheapest == CheapestToGoal(goal)
               IN  \A a \in Cells :
                      cheapest[a] < Unreached => HeuristicAt(a, goal) <= cheapest[a]

Max(a, b) == IF a > b THEN a ELSE b

\* C10: findPath is total: the search loop runs at most once per cell of the grid
\* (each iteration that does not return closes a cell that was not closed), and on
\* success every line-of-sight loop that smoothing can run ends within the longer
\* side of the line's bounding box, and smoothing ends with a path no longer than
\* the raw path.
C10_FindPathTerminates ==
    /\ iterations <= width * height
    /\ pc = "search" =>
          /\ iterations = Cardinality(closedList)
          /\ closedList \subseteq Cells
    /\ (Returns /\ rawPath # << >>) =>
          /\ Len(result) <= Len(rawPath)
          /\ \A i, j \in 1 .. Len(rawPath) :
                 LET a == PointCell(rawPath[i])
                     b == PointCell(rawPath[j])
                 IN  LineOfSight(rawPath[i], rawPath[j]).steps
                        <= Max(Abs(a[1] - b[1]), Abs(a[2] - b[2])) + 1

\* a search that closed every cell it could reach and returned without a path
C10_Witness ==
    /\ Returns /\ ValidCall
    /\ Walkable(NodeCell(endNode))
    /\ result = << >>
    /\ iterations >= 2
    /\ iterations = Cardinality(ReachableFrom({NodeCell(startNode)}))

\* the world points tried as arguments of the grid's operations
Samples == WorldSamples(width) \X WorldSamples(height)

\* the cell a world point maps to
SampleCell(p) == << WorldToCell(p[1], width), WorldToCell(p[2], height) >>

\* C11: right after setObstacle(x, z, true) on a point that maps to an in-range cell
\* isWalkableAt(x, z) is false, right after setObstacle(x, z, false) it is true; for
\* a point that maps outside the grid isWalkableAt is false whatever was edited.
C11_WalkableAfterEdit ==
    [][(pc = "idle" /\ pc' = "idle") =>
          \A p \in Samples :
              IF InGrid(SampleCell(p))
              THEN \A b \in BOOLEAN :
                       grid' = Edited(p[1], p[2], b) => (isWalkableAt(p[1], p[2])' = ~b)
              ELSE ~isWalkableAt(p[1], p[2]) /\ ~isWalkableAt(p[1], p[2])'
      ]_vars

\* a cell has been blocked: the point at its center is not walkable, and a point
\* beside the grid whose array index lies within the grid is not walkable either
C11_Witness ==
    /\ pc = "idle"
    /\ \E p \in Samples : InGrid(SampleCell(p)) /\ ~isWalkableAt(p[1], p[2])
    /\ \E p \in Samples :
           /\ ~InGrid(SampleCell(p))
           /\ SampleCell(p)[2] * width + SampleCell(p)[1] \in DOMAIN grid
           /\ grid[SampleCell(p)[2] * width + SampleCell(p)[1]] = 0
           /\ ~isWalkableAt(p[1], p[2])

\* C12: setObstacle(x, z, blocked) leaves the state of every cell other than the
\* cell of (x, z) unchanged, and changes no cell when (x, z) maps outside the grid.
C12_EditsOneCell ==
    [][(pc = "idle" /\ pc' = "idle" /\ grid' # grid) =>
          \A p \in Samples, b \in BOOLEAN :
              grid' = Edited(p[1], p[2], b) =>
                  /\ InGrid(SampleCell(p))
                  /\ DOMAIN grid' = DOMAIN grid
                  /\ \A c \in Cells : c # SampleCell(p) => (Walkable(c)' = Walkable(c))
      ]_vars

\* two edits have blocked two cells and left the other cells walkable
C12_Witness ==
    /\ pc = "idle"
    /\ BlockedCount(grid) = 2
    /\ Cardinality({c \in Cells : Walkable(c)}) = Cardinality(Cells) - 2

\* C13: for every in-range cell, of an even or an odd dimension, the cell of the
\* world-space center of the cell is the cell itself.
C13_CenterRoundTrip ==
    /\ \A cx \in 0 .. width - 1 : WorldToCell(CellCenter(cx, width), width) = cx
    /\ \A cy \in 0 .. height - 1 : WorldToCell(CellCenter(cy, height), height) = cy
    /\ (Returns /\ result # << >>) =>
           \A i \in 1 .. Len(rawPath) : CenterOf(PointCell(rawPath[i])) = rawPath[i]

\* a path across a grid of an odd width and an even height has been returned
C13_Witness ==
    /\ Returns
    /\ width % 2 = 1 /\ height % 2 = 0
    /\ Len(rawPath) >= 3

\* the movement states of the specification
Idle(u) == ~u.isMoving

IsFollowing(u) == u.isMoving

\* C14: an agent starts Idle; setPath with a non-empty path leaves the agent
\* Following with waypoint cursor 1; setPath with an empty path leaves it Idle.
C14_SetPathStates ==
    [][
        /\ (ticks = 0 /\ commands = 0) => \A i \in DOMAIN units : Idle(units[i])
        /\ (updating = 0 /\ commands' = commands + 1) =>
             \A i \in DOMAIN units, path \in PathSamples :
                 setPath(i, path) =>
                     IF path # << >>
                     THEN IsFollowing(units'[i]) /\ units'[i].currentWaypointIndex = 1
                     ELSE Idle(units'[i])
      ]_vars

\* before any frame, a unit was given a path and then the empty path
C14_Witness ==
    /\ ticks = 0 /\ commands = 2
    /\ \E i \in DOMAIN units :
           /\ Idle(units[i])
           /\ units[i].path # << >>
           /\ units[i].currentWaypointIndex = 1

\* C15: every setPath call, whatever its argument, replaces the prior path of
\* the agent by the path supplied and resets the waypoint cursor, so that the
\* agent holds no waypoint of the previous path after the call.
C15_SetPathReplaces ==
    [][(updating = 0 /\ commands' = commands + 1) =>
          \A i \in DOMAIN units, path \in PathSamples :
              setPath(i, path) =>
                  /\ units'[i].path = path
                  /\ units'[i].currentWaypointIndex <= 1
      ]_vars

\* C16: the waypoint cursor of an agent only increases: no setPath call and no
\* update call leaves it smaller than it was before the call.
C16_CursorOnlyIncreases ==
    [][\A i \in DOMAIN units :
          units'[i].currentWaypointIndex >= units[i].currentWaypointIndex]_vars

\* C16 as amended: no update call leaves the cursor smaller than it was; a
\* setPath call with a non-empty path sets it to 1, whatever it was, and a
\* setPath call with an empty path leaves it as it was.
C16_CursorIncreasesInUpdate ==
    [][
        /\ updating > 0 =>
             \A i \in DOMAIN units :
                 units'[i].currentWaypointIndex >= units[i].currentWaypointIndex
        /\ (updating = 0 /\ commands' = commands + 1) =>
             \A i \in DOMAIN units, path \in PathSamples :
                 setPath(i, path) =>
                     units'[i].currentWaypointIndex =
                         IF path # << >> THEN 1 ELSE units[i].currentWaypointIndex
      ]_vars

\* an update has advanced the cursor of a unit that goes on following its path
C16_Witness ==
    \E i \in DOMAIN units :
        IsFollowing(units[i]) /\ units[i].currentWaypointIndex = 2

\* C17: in every state reached by setPath and update calls, an agent whose path
\* is empty is Idle.
C17_EmptyPathIsIdle ==
    \A i \in DOMAIN units : units[i].path = << >> => Idle(units[i])

\* a unit has arrived at the end of a path, which emptied its path
C17_Witness ==
    \E i \in DOMAIN units :
        /\ units[i].path = << >>
        /\ units[i].currentWaypointIndex >= 2
        /\ Idle(units[i])

\* the distance of a unit to the waypoint its cursor designates is below the
\* arrival radius
AtWaypoint(u) ==
    /\ ~u.nan
    /\ u.currentWaypointIndex + 1 \in DOMAIN u.path
    /\ lengthSq(subVectors(u.position,
                           WaypointPosition(u.path[u.currentWaypointIndex + 1])))
           < ArrivalRadius * ArrivalRadius

\* C18: an update of a Following agent that finds the distance to its current
\* waypoint below the arrival radius leaves the agent Idle with an empty path when
\* the cursor is at the last waypoint, and otherwise advances the cursor by one
\* and leaves the agent Following.
C18_ArrivalAdvancesOrEnds ==
    [][(updating > 0 /\ update) =>
          LET u == units[updating]
              v == units'[updating]
          IN  (IsFollowing(u) /\ AtWaypoint(u)) =>
                  IF u.currentWaypointIndex = Len(u.path) - 1
                  THEN Idle(v) /\ v.path = << >>
                  ELSE /\ v.currentWaypointIndex = u.currentWaypointIndex + 1
                       /\ IsFollowing(v)
                       /\ v.path = u.path
      ]_vars

\* a unit has reached the final waypoint of a path of 3 waypoints
C18_Witness ==
    \E i \in DOMAIN units :
        /\ Idle(units[i])
        /\ units[i].path = << >>
        /\ units[i].currentWaypointIndex = 3

\* where a unit was before the last frame moved it
PositionBeforeFrame(u) ==
    IF u.nan THEN u.position
    ELSE subVectors(u.position, divideScalar(multiplyScalar(u.velocity, dt), Milli))

\* the velocity of u is not zero and points away from the unit other
MovesAwayFrom(u, other) ==
    /\ ~u.nan
    /\ u.velocity # ZeroVec
    /\ u.velocity.x * (u.position.x - other.position.x)
         + u.velocity.z * (u.position.z - other.position.z) > 0

\* C19: two agents with empty paths and zero velocity, closer to each other than
\* own radius + neighbour radius + buffer: after one update call of each agent
\* with the other as neighbour, the velocity of each is non-zero and points away
\* from the other agent.
C19_SeparationPushesApart ==
    (/\ ticks = 1 /\ updating = 0 /\ commands = 0 /\ Len(units) = 2
     /\ lengthSq(subVectors(PositionBeforeFrame(units[1]), PositionBeforeFrame(units[2])))
            < (radius + radius + SeparationBuffer) * (radius + radius + SeparationBuffer))
        => /\ MovesAwayFrom(units[1], units[2])
           /\ MovesAwayFrom(units[2], units[1])

\* C20: for each selected agent of a move command setPath is called exactly when
\* findPath returns a non-empty path; on an empty result the path, the waypoint
\* cursor, the movement state, the position and the velocity of the agent are left
\* as they were, and no agent that is not selected is changed by the command.
C20_DispatchFrame ==
    [][(Dispatching \/ Dispatching') =>
          /\ \A j \in DOMAIN units : ~units[j].selected => units'[j] = units[j]
          /\ ~(Dispatching /\ pc = "returned") => units' = units
          /\ (Dispatching /\ pc = "returned") =>
                /\ \A j \in DOMAIN units : j # DispatchedUnit => units'[j] = units[j]
                /\ units[DispatchedUnit].selected
                /\ IF result # << >>
                   THEN /\ units'[DispatchedUnit].path = result
                        /\ units'[DispatchedUnit].currentWaypointIndex = 1
                        /\ IsFollowing(units'[DispatchedUnit])
                        /\ units'[DispatchedUnit].position = units[DispatchedUnit].position
                        /\ units'[DispatchedUnit].velocity = units[DispatchedUnit].velocity
                   ELSE units'[DispatchedUnit] = units[DispatchedUnit]
      ]_vars

\* the search for a selected unit that follows a path has found no way through
\* the wall to its target, while the other unit is not selected
C20_Witness ==
    /\ Dispatching /\ pc = "returned"
    /\ ValidCall /\ Walkable(NodeCell(endNode))
    /\ result = << >>
    /\ IsFollowing(units[DispatchedUnit])
    /\ \E j \in DOMAIN units : ~units[j].selected

RECURSIVE OffsetSum(_, _)
\* the sum of the offsets of the slots 0 .. n - 1 of a lattice of cols columns
OffsetSum(n, cols) ==
    IF n = 0 THEN ZeroVec ELSE addVectors(OffsetSum(n - 1, cols), Offset(n - 1, cols))

IsSquare(n) == \E r \in 1 .. n : r * r = n

\* C21: agent i of n selected agents gets the lattice slot (i mod cols, i div cols),
\* cols = ceil(sqrt(n)), slots spaced by the fixed spacing, and the lattice is
\* centered on the target: for a perfect square n the offsets of the n slots sum to
\* zero, so a single selected agent is sent to the target point itself.
C21_LatticeCentered ==
    Dispatching =>
        LET n == Len(dispatch.selected)
            cols == CHOOSE c \in 1 .. n : c * c >= n /\ (c - 1) * (c - 1) < n
            i == dispatch.i
        IN  /\ subVectors(unitTarget, addVectors(dispatch.target, Offset(0, cols)))
                   = Vec((i % cols) * spacing, (i \div cols) * spacing)
            /\ IsSquare(n) => OffsetSum(n, cols) = ZeroVec
            /\ n = 1 => unitTarget = dispatch.target

\* the call that has returned ran on the grid and between the cells of the
\* remembered call
SameCallAsEarlier ==
    /\ Returns
    /\ earlier # NoEarlier
    /\ earlier.grid = grid
    /\ earlier.startNode = startNode
    /\ earlier.endNode = endNode

C23_SpeedAtMostMax ==
    \A i \in DOMAIN units :
        /\ ~units[i].nan
        /\ lengthSq(units[i].velocity) <= (maxSpeed * Milli) * (maxSpeed * Milli)

\* position, velocity, heading, path, cursor and movement state of an agent
AgentState(u) ==
    [position |-> u.position, velocity |-> u.velocity, nan |-> u.nan,
     rotation |-> u.rotation, path |-> u.path,
     currentWaypointIndex |-> u.currentWaypointIndex, isMoving |-> u.isMoving]

\* C24: an update call on one agent leaves position, velocity, heading, path,
\* cursor and movement state of every other agent unchanged and leaves the grid
\* unchanged; the state of an agent is changed only by its own update call and
\* by setPath on it.
C24_UpdateFrame ==
    [][
        /\ updating > 0 =>
              /\ grid' = grid
              /\ \A j \in DOMAIN units :
                     j # updating => AgentState(units'[j]) = AgentState(units[j])
        /\ \A j \in DOMAIN units :
               AgentState(units'[j]) # AgentState(units[j]) =>
                   \/ updating = j
                   \/ Dispatching /\ pc = "returned" /\ DispatchedUnit = j
      ]_vars

\* the first agent of a frame has been updated and pushed away from its
\* neighbour, and the neighbour is where it was spawned, at rest
C24_Witness ==
    /\ updating = 2
    /\ units[1].velocity # ZeroVec
    /\ ~TooClose(units[1], units[2])
    /\ units[2].velocity = ZeroVec
    /\ units[2].position = NewUnit(CellCenter(0, width) * (Milli \div 2),
                                   CellCenter(height - 1, height) * (Milli \div 2)).position

\* the agent after the arrival check of an update call
AfterArrivalCheck(u) == IF Following(u) THEN ArrivalCheck(u) ELSE u

\* C25: in every update call, the tick that reaches the final waypoint included,
\* exactly one of the path-following force and the idle damping force is added,
\* chosen by the movement state after the arrival check of that call: the seek
\* force if the agent is then Following, the damping force if it is then Idle.
C25_OneOfSeekAndDamping ==
    (updating > 0 /\ ~Throws(units[updating]) /\ ~units[updating].nan) =>
        LET u == units[updating]
        IN  IF IsFollowing(AfterArrivalCheck(u))
            THEN \E k \in DOMAIN u.path :
                     PathAcceleration(u) = SeekForce(u, WaypointPosition(u.path[k]))
            ELSE PathAcceleration(u) = FrictionForce(u)

\* C26: in every update call that leaves the agent Following, the path-following
\* force is directed toward the waypoint the cursor designates after the arrival
\* check of that call, also on a tick where the check has advanced the cursor.
C26_SeeksCurrentWaypoint ==
    (updating > 0 /\ ~Throws(units[updating]) /\ ~units[updating].nan) =>
        LET u == units[updating]
        IN  IsFollowing(AfterArrivalCheck(u)) =>
                PathAcceleration(u) = SeekForce(u, Target(AfterArrivalCheck(u)))

\* C27: after any sequence of move commands and ticks, every Following agent
\* has a cursor below the length of its path, so that update always reads an
\* existing waypoint, whatever path the dispatcher assigned.
C27_CursorValid ==
    /\ ~fault
    /\ \A i \in DOMAIN units :
           IsFollowing(units[i]) => units[i].currentWaypointIndex < Len(units[i].path)

\* C28: every waypoint of every non-empty path findPath returns is the centre
\* of an in-range walkable cell, for every start point that maps to an in-range
\* cell, whatever the state of the start cell.
C28_WaypointsWalkable ==
    (Returns /\ InGrid(NodeCell(startNode))) =>
        \A k \in DOMAIN result :
            /\ Walkable(PointCell(result[k]))
            /\ result[k] = CenterOf(PointCell(result[k]))

RECURSIVE LineCells(_, _, _, _)
\* the cells of the rasterized line from cell a to cell b, a and b included
LineCells(a, b, err, acc) ==
    IF a = b THEN Append(acc, a)
    ELSE LET dx == Abs(b[1] - a[1])
             dy == Abs(b[2] - a[2])
             sx == IF a[1] < b[1] THEN 1 ELSE -1
             sy == IF a[2] < b[2] THEN 1 ELSE -1
             stepX == 2 * err > -dy
             stepY == 2 * err < dx
         IN  LineCells(<< IF stepX THEN a[1] + sx ELSE a[1],
                          IF stepY THEN a[2] + sy ELSE a[2] >>,
                       b,
                       err - (IF stepX THEN dy ELSE 0) + (IF stepY THEN dx ELSE 0),
                       Append(acc, a))

\* the rasterized line between two waypoints
Rasterized(p, q) ==
    LET a == PointCell(p)
        b == PointCell(q)
    IN  LineCells(a, b, Abs(b[1] - a[1]) - Abs(b[2] - a[2]), << >>)

\* C29: no segment of a returned path cuts through a wall corner: along the
\* rasterized line between two consecutive waypoints, no diagonal step from cell
\* to cell has a blocked cell as one of its two flanking orthogonal neighbours.
C29_NoSegmentCutsCorner ==
    Returns =>
        \A i \in 1 .. Len(result) - 1 :
            LET cells == Rasterized(result[i], result[i + 1])
            IN  \A k \in 1 .. Len(cells) - 1 : NoCornerCut(cells[k], cells[k + 1])

\* the cells of the nodes of the open list
OpenCells == {Cell(openList[k].x, openList[k].y) : k \in DOMAIN openList}

\* no cell is both open and closed, and no cell is twice in the open list
OpenClosedDisjoint ==
    /\ OpenCells \cap closedList = {}
    /\ \A j, k \in DOMAIN openList :
           (openList[j].x = openList[k].x /\ openList[j].y = openList[k].y) => j = k

\* a node of the open list with the cell c and the lowest f of the open list
LowestOpenAt(c) ==
    \E k \in DOMAIN openList :
        /\ Cell(openList[k].x, openList[k].y) = c
        /\ \A j \in DOMAIN openList : openList[k].f <= openList[j].f

\* C30: at every iteration of the search loop no cell is both in the open list
\* and in the closed set, no cell is twice in the open list, every extracted
\* node has the lowest f of the open list, and a closed cell is never reopened
\* or expanded again.
C30_SearchLoopInvariants ==
    [][
        /\ pc = "search" => OpenClosedDisjoint
        /\ pc' = "search" => OpenClosedDisjoint'
        /\ (pc = "search" /\ pc' = "search") =>
              /\ closedList \subseteq closedList'
              /\ \E c \in closedList' \ closedList :
                     /\ closedList' = closedList \cup {c}
                     /\ LowestOpenAt(c)
        /\ (pc = "search" /\ pc' = "returned" /\ rawPath' # << >>) =>
              LowestOpenAt(Cell(endNode.x, endNode.y))
      ]_vars

\* the search has closed two cells and the node of lowest f is not the first
\* of the open list
C30_Witness ==
    /\ pc = "search"
    /\ Cardinality(closedList) >= 2
    /\ \E j, k \in DOMAIN openList : k < j /\ openList[j].f < openList[k].f
    /\ LowestIndex(openList) > 1

====
